---- MODULE Spec2Model ----
(***************************************************************************)
(* Model of src/app.py: the bookings dashboard.  The bookings table is the  *)
(* external record source; fetch_minmax and fetch_rows push the success     *)
(* condition and the event_dt range down to it; Case 1 and Case 3 derive a  *)
(* time series from the fetched rows.                                       *)
(*                                                                         *)
(* Timestamps are minutes since day 0 (naive local time).  A text value is  *)
(* a sequence of tokens, so that TRIM, LOWER, CONCAT, DATE and CAST are     *)
(* computed and not assumed.  A nullable value is <<>> (NULL/None/NaT) or   *)
(* <<v>>.                                                                   *)
(***************************************************************************)
EXTENDS Integers, Sequences, FiniteSets, TLC

\* ------------------------------------------------------------------ bounds
MaxRows == 2
MaxDay == 4

MinutesPerHour == 60
MinutesPerDay == 1440
HoursPerDay == MinutesPerDay \div MinutesPerHour

\* ------------------------------------------------------------------ values
NULL == <<>>
Val(x) == <<x>>
IsNull(x) == x = <<>>
Get(x) == x[1]

Days == 0..MaxDay

\* tokens of a date/time text
SP == [k |-> "sp", v |-> 0]
TB == [k |-> "tab", v |-> 0]
D(d) == [k |-> "date", v |-> d]
T(m) == [k |-> "time", v |-> m]
X == [k |-> "junk", v |-> 0]

RECURSIVE LTrimTok(_, _)
LTrimTok(s, sp) == IF s # <<>> /\ Head(s) = sp THEN LTrimTok(Tail(s), sp) ELSE s

RECURSIVE RTrimTok(_, _)
RTrimTok(s, sp) ==
    IF s # <<>> /\ s[Len(s)] = sp THEN RTrimTok(SubSeq(s, 1, Len(s) - 1), sp) ELSE s

\* SQL TRIM(x): the blanks sp at both ends removed (no other white space is);
\* NULL stays NULL
SqlTrim(x, sp) == IF IsNull(x) THEN NULL ELSE Val(LTrimTok(RTrimTok(Get(x), sp), sp))

\* SQL COALESCE(x, dflt)
Coalesce(x, dflt) == IF IsNull(x) THEN dflt ELSE Get(x)

\* ------------------------------------------------------------------ SQL text functions
\* white space: a blank or a tab
NotWs(t) == t # SP /\ t # TB

\* CAST(text AS DATETIME): 'DATE' or 'DATE TIME', white space around and between
\* the parts skipped; any other text is no datetime (NULL)
CastDatetime(x) ==
    IF IsNull(x) THEN NULL
    ELSE LET t == SelectSeq(Get(x), NotWs) IN
         IF Len(t) = 1 /\ t[1].k = "date" THEN Val(t[1].v * MinutesPerDay)
         ELSE IF Len(t) = 2 /\ t[1].k = "date" /\ t[2].k = "time"
              THEN Val(t[1].v * MinutesPerDay + t[2].v)
              ELSE NULL

\* the text of a DATETIME value, 'YYYY-MM-DD hh:mm:ss'
DatetimeText(dt) == <<D(dt \div MinutesPerDay), SP, T(dt % MinutesPerDay)>>

\* the date column as text: a DATETIME column is converted, a text column is itself
DateAsText(date, typed) ==
    IF IsNull(date) THEN NULL
    ELSE IF typed THEN Val(DatetimeText(Get(date))) ELSE date

\* DATE(date): the day of the value, as the text 'YYYY-MM-DD'; NULL when the
\* value is NULL or no date
SqlDate(date, typed) ==
    LET dt == IF typed THEN date ELSE CastDatetime(date) IN
    IF IsNull(dt) THEN NULL ELSE Val(<<D(Get(dt) \div MinutesPerDay)>>)

\* CONCAT(a, ' ', b): NULL when an argument is NULL
ConcatSp(a, b) == IF IsNull(a) \/ IsNull(b) THEN NULL ELSE Val(Get(a) \o <<SP>> \o Get(b))

\* a = b under the column's collation: a PAD SPACE collation ignores trailing blanks
SqlEq(a, b, sp, pad) == IF pad THEN RTrimTok(a, sp) = RTrimTok(b, sp) ELSE a = b

\* EVENT_DT_EXPR: the event timestamp of a row, NULL when it is no datetime
\* mutant: the date is concatenated whole, its time of day not cut off
EVENT_DT_EXPR_WholeDate(r, typed, pad) ==
    CastDatetime(
        IF ~SqlEq(Coalesce(SqlTrim(r.time, SP), <<>>), <<>>, SP, pad)
        THEN ConcatSp(DateAsText(r.date, typed), SqlTrim(r.time, SP))
        ELSE DateAsText(r.date, typed))

EVENT_DT_EXPR(r, typed, pad) ==
    CastDatetime(
        IF ~SqlEq(Coalesce(SqlTrim(r.time, SP), <<>>), <<>>, SP, pad)
        THEN ConcatSp(SqlDate(r.date, typed), SqlTrim(r.time, SP))
        ELSE DateAsText(r.date, typed))

\* LOWER(text) on a status text, a sequence of words and blanks
LowerTok(w) ==
    CASE w = "Success" -> "success"
      [] w = "SUCCESS" -> "success"
      [] w = "Cancelled" -> "cancelled"
      [] OTHER -> w

SqlLower(s) == [i \in DOMAIN s |-> LowerTok(s[i])]

\* SUCCESS_WHERE: LOWER(COALESCE(booking_status,'')) = 'success'
SUCCESS_WHERE(r, pad) == SqlEq(SqlLower(Coalesce(r.booking_status, <<>>)), <<"success">>, " ", pad)

\* ------------------------------------------------------------------ state
VARIABLES
    bookings,        \* the bookings table: a sequence of rows
    dateTyped,       \* schema: the date column is DATETIME (TRUE) or text (FALSE)
    padSpace,        \* the text columns' collation is PAD SPACE
    pdLenient,       \* the in-process parser accepts a text with two times of day
    pc,              \* "idle", "seeded" (Case 1 after the probe), "done"
    selected_case,   \* "none", "case1", "case3", "case9", "fetch_minmax", "fetch_rows"
    successful_only, \* Case 1 checkbox / argument
    apply_filter,    \* Case 1 checkbox / argument
    mm,              \* result of fetch_minmax: [min_dt, max_dt], each nullable
    start_dt,        \* nullable range bounds
    end_dt,
    where_parts,     \* the conditions fetch_rows joined into its WHERE clause
    params,          \* the parameters fetch_rows bound: NULL or <<start, end>>
    df,              \* the fetched rows
    table,           \* the rendered result table: NULL or <<rows>>
    granularity,     \* "" , "H" or "D"
    ts,              \* the rendered time series: NULL or <<series>>
    chart,           \* "", "line" or "bar"
    msg,             \* "", "no_data", "no_rows", "no_valid", "error"
    conns,           \* connections open
    queries          \* round trips made to the record source

vars == <<bookings, dateTyped, padSpace, pdLenient, pc, selected_case, successful_only,
          apply_filter, mm, start_dt, end_dt, where_parts, params, df, table,
          granularity, ts, chart, msg, conns, queries>>

dbvars == <<bookings, dateTyped, padSpace, pdLenient>>

\* ------------------------------------------------------------------ queries
EventDt(i) == EVENT_DT_EXPR(bookings[i], dateTyped, padSpace)

\* a nullable timestamp as a sort key: NULL sorts first
DtKey(x) == IF IsNull(x) THEN -1 ELSE Get(x)

Min(S) == CHOOSE x \in S : \A y \in S : x <= y
Max(S) == CHOOSE x \in S : \A y \in S : x >= y

\* the indices of S in ascending order of key[i], ties in table order
RECURSIVE SortBy(_, _)
SortBy(S, key) ==
    IF S = {} THEN <<>>
    ELSE LET k == Min({key[i] : i \in S})
             i == Min({j \in S : key[j] = k})
         IN <<i>> \o SortBy(S \ {i}, key)

\* fetch_minmax's query: MIN and MAX of event_dt over the (successful) rows
MinMaxQuery(so) ==
    LET S == {i \in DOMAIN bookings : so => SUCCESS_WHERE(bookings[i], padSpace)}
        V == {Get(EventDt(i)) : i \in {j \in S : ~IsNull(EventDt(j))}}
    IN IF V = {} THEN [min_dt |-> NULL, max_dt |-> NULL]
       ELSE [min_dt |-> Val(Min(V)), max_dt |-> Val(Max(V))]

\* Python truth of an Optional[datetime]: None is false, a datetime is true
Truthy(x) == ~IsNull(x)

\* mutant: the range is active whenever both bounds are given
RangeActive_IgnoresFlag(s, e, af) == Truthy(s) /\ Truthy(e)

\* apply_filter and start_dt and end_dt
RangeActive(s, e, af) == af /\ Truthy(s) /\ Truthy(e)

\* mutant: the success condition is always part of the clause
WhereParts_AlwaysSuccess(so, s, e, af) ==
    <<"SUCCESS_WHERE">>
    \o (IF RangeActive(s, e, af) THEN <<"BETWEEN">> ELSE <<>>)

\* fetch_rows: where_parts
WhereParts(so, s, e, af) ==
    (IF so THEN <<"SUCCESS_WHERE">> ELSE <<>>)
    \o (IF RangeActive(s, e, af) THEN <<"BETWEEN">> ELSE <<>>)

\* fetch_rows: params
Params(s, e, af) == IF RangeActive(s, e, af) THEN Val(<<s, e>>) ELSE NULL

\* mutant: the upper bound is exclusive
Between_ExclusiveEnd(x, lo, hi) == ~IsNull(x) /\ ~IsNull(lo) /\ ~IsNull(hi)
                                   /\ Get(lo) <= Get(x) /\ Get(x) < Get(hi)

\* x BETWEEN lo AND hi: lo <= x AND x <= hi, not true when x is NULL
Between(x, lo, hi) == ~IsNull(x) /\ ~IsNull(lo) /\ ~IsNull(hi)
                      /\ Get(lo) <= Get(x) /\ Get(x) <= Get(hi)

\* mutant: a row without a timestamp passes the range condition
Holds_NullInRange(part, i, p) ==
    IF part = "SUCCESS_WHERE" THEN SUCCESS_WHERE(bookings[i], padSpace)
    ELSE IsNull(EventDt(i)) \/ Between(EventDt(i), Get(p)[1], Get(p)[2])

\* one condition of the WHERE clause on row i, the range bound to parameters p
Holds(part, i, p) ==
    IF part = "SUCCESS_WHERE" THEN SUCCESS_WHERE(bookings[i], padSpace)
    ELSE Between(EventDt(i), Get(p)[1], Get(p)[2])

\* the rows the WHERE clause selects (all rows when there is no clause)
Selected(parts, p) ==
    {i \in DOMAIN bookings : \A k \in DOMAIN parts : Holds(parts[k], i, p)}

\* a row of fetch_rows' result
ResultRow(i) ==
    [event_dt |-> EventDt(i), date |-> bookings[i].date, time |-> bookings[i].time,
     booking_id |-> bookings[i].booking_id, booking_status |-> bookings[i].booking_status,
     canceled_rides_by_customer |-> bookings[i].canceled_rides_by_customer]

EventKey == [i \in DOMAIN bookings |-> DtKey(EventDt(i))]

\* fetch_rows' query: the selected rows, ORDER BY event_dt
RowsQuery(so, s, e, af) ==
    LET ord == SortBy(Selected(WhereParts(so, s, e, af), Params(s, e, af)), EventKey)
    IN [k \in DOMAIN ord |-> ResultRow(ord[k])]

\* ------------------------------------------------------------------ bucketing
Width(g) == IF g = "H" THEN MinutesPerHour ELSE MinutesPerDay

Bucket(t, g) == t \div Width(g)

HasEventDt(r) == ~IsNull(r.event_dt)

\* dropna(subset=["event_dt"])
DropNa(rows) == SelectSeq(rows, HasEventDt)

\* the regular series of rows (all with an event_dt) at frequency g: one entry
\* per bucket from the first row's bucket to the last row's, each with the
\* number of its rows i with counted[i]
Series(rows, g, counted) ==
    IF rows = <<>> THEN <<>>
    ELSE LET B == {Bucket(Get(rows[i].event_dt), g) : i \in DOMAIN rows}
             lo == Min(B)
             hi == Max(B)
         IN [k \in 1..(hi - lo + 1) |->
                [event_dt |-> (lo + k - 1) * Width(g),
                 n |-> Cardinality({i \in DOMAIN rows :
                          /\ Bucket(Get(rows[i].event_dt), g) = lo + k - 1
                          /\ counted[i]})]]

\* mutant helper: only the buckets that hold a row, as a plain groupby gives
RECURSIVE PopulatedOnly(_)
PopulatedOnly(series) ==
    IF series = <<>> THEN <<>>
    ELSE (IF Head(series).n > 0 THEN <<Head(series)>> ELSE <<>>) \o PopulatedOnly(Tail(series))

HasBookingId(r) == ~IsNull(r.booking_id)
AnyRow(r) == TRUE

\* mutant: empty buckets are left out
ResampleCount_NoFill(rows, g) == PopulatedOnly(Series(rows, g, [i \in DOMAIN rows |-> HasBookingId(rows[i])]))

\* Case 1: set_index("event_dt").resample(g)["booking_id"].count()
ResampleCount(rows, g) == Series(rows, g, [i \in DOMAIN rows |-> HasBookingId(rows[i])])

\* mutant: grouped by the populated buckets only
GrouperSize_NoFill(rows, g) == PopulatedOnly(Series(rows, g, [i \in DOMAIN rows |-> AnyRow(rows[i])]))

\* Case 3: groupby(pd.Grouper(key="event_dt", freq=g))["booking_id"].size()
GrouperSize(rows, g) == Series(rows, g, [i \in DOMAIN rows |-> AnyRow(rows[i])])

\* ------------------------------------------------------------------ connection
DbOutcomes == {"ok", "connect_fails", "query_fails"}

\* conn = get_conn(); pd.read_sql(sql, conn); conn.close()
ConnsAfter(res) == IF res = "query_fails" THEN conns + 1 ELSE conns
QueriesAfter(res) == IF res = "connect_fails" THEN queries ELSE queries + 1

\* ------------------------------------------------------------------ the two fetch functions, called on their own
ArgBounds == {NULL, Val(9 * MinutesPerHour), Val(MaxDay * MinutesPerDay + MinutesPerDay - 1)}

fetch_minmax(so) ==
    /\ pc = "idle"
    /\ selected_case' = "fetch_minmax"
    /\ successful_only' = so
    /\ mm' = Val(MinMaxQuery(so))
    /\ msg' = ""
    /\ conns' = ConnsAfter("ok")
    /\ queries' = QueriesAfter("ok")
    /\ pc' = "done"
    /\ UNCHANGED <<dbvars, apply_filter, start_dt, end_dt, where_parts, params, df, table,
                   granularity, ts, chart>>

fetch_rows(so, s, e, af) ==
    /\ pc = "idle"
    /\ selected_case' = "fetch_rows"
    /\ successful_only' = so
    /\ apply_filter' = af
    /\ start_dt' = s
    /\ end_dt' = e
    /\ where_parts' = WhereParts(so, s, e, af)
    /\ params' = Params(s, e, af)
    /\ df' = Val(RowsQuery(so, s, e, af))
    /\ msg' = ""
    /\ conns' = ConnsAfter("ok")
    /\ queries' = QueriesAfter("ok")
    /\ pc' = "done"
    /\ UNCHANGED <<dbvars, mm, table, granularity, ts, chart>>

\* either function when get_conn or pd.read_sql raises: conn.close() is not reached
FetchRaises(fn, res) ==
    /\ pc = "idle"
    /\ res # "ok"
    /\ selected_case' = fn
    /\ conns' = ConnsAfter(res)
    /\ queries' = QueriesAfter(res)
    /\ msg' = "error"
    /\ pc' = "done"
    /\ UNCHANGED <<dbvars, successful_only, apply_filter, mm, start_dt, end_dt, where_parts,
                   params, df, table, granularity, ts, chart>>

\* ------------------------------------------------------------------ Case 1
AutoHourlyMaxDays == 3

\* timedelta.days of a difference of two datetimes: whole days, rounded down
TimedeltaDays(delta) == delta \div MinutesPerDay

\* mutant: the calendar days the range touches are counted
AutoGranularity_CalendarDays(s, e) ==
    IF (e \div MinutesPerDay) - (s \div MinutesPerDay) + 1 <= AutoHourlyMaxDays THEN "H" ELSE "D"

\* granularity = "H" if (end_dt - start_dt).days <= 3 else "D"
AutoGranularity(s, e) == IF TimedeltaDays(e - s) <= AutoHourlyMaxDays THEN "H" ELSE "D"

StartTimes == {0, MinutesPerDay - 1}
EndTimes == {9 * MinutesPerHour, MinutesPerDay - 1}

DateOf(dt) == dt \div MinutesPerDay

\* the values the date and time widgets can return: a completed range within
\* [min date, max date], or a tuple of one date while the range is half picked;
\* the defaults when the widgets are disabled
WidgetValues(m, af) ==
    LET lo == DateOf(Get(m.min_dt))
        hi == DateOf(Get(m.max_dt))
    IN IF af
       THEN {<<dr, t1, t2>> \in
                ({<<a>> : a \in lo..hi} \cup {<<a, b>> : a \in lo..hi, b \in lo..hi})
                \X StartTimes \X EndTimes :
                Len(dr) = 2 => dr[1] <= dr[2]}
       ELSE {<<<<lo, hi>>, 0, MinutesPerDay - 1>>}

\* start_dt, end_dt = datetime.combine(...) when the filter is on and the range complete
Case1Range(af, dr, t1, t2) ==
    IF af /\ Len(dr) = 2
    THEN <<Val(dr[1] * MinutesPerDay + t1), Val(dr[2] * MinutesPerDay + t2)>>
    ELSE <<NULL, NULL>>

Case1ProbeFails(so, af, res) ==
    /\ pc = "idle"
    /\ res # "ok"
    /\ selected_case' = "case1"
    /\ successful_only' = so
    /\ apply_filter' = af
    /\ conns' = ConnsAfter(res)
    /\ queries' = QueriesAfter(res)
    /\ msg' = "error"
    /\ pc' = "done"
    /\ UNCHANGED <<dbvars, mm, start_dt, end_dt, where_parts, params, df, table,
                   granularity, ts, chart>>

Case1Probe(so, af) ==
    /\ pc = "idle"
    /\ selected_case' = "case1"
    /\ successful_only' = so
    /\ apply_filter' = af
    /\ mm' = Val(MinMaxQuery(so))
    /\ conns' = ConnsAfter("ok")
    /\ queries' = QueriesAfter("ok")
    /\ UNCHANGED <<dbvars, start_dt, end_dt, where_parts, params, df, table,
                   granularity, ts, chart>>

\* st.warning("No data found ..."); st.stop()
Case1NoData(so, af) ==
    /\ Case1Probe(so, af)
    /\ IsNull(MinMaxQuery(so).min_dt) \/ IsNull(MinMaxQuery(so).max_dt)
    /\ msg' = "no_data"
    /\ pc' = "done"

Case1Seeded(so, af) ==
    /\ Case1Probe(so, af)
    /\ ~(IsNull(MinMaxQuery(so).min_dt) \/ IsNull(MinMaxQuery(so).max_dt))
    /\ msg' = ""
    /\ pc' = "seeded"

\* the script from the date widgets to df = fetch_rows(...)
Case1Fetch(dr, t1, t2) ==
    LET rg == Case1Range(apply_filter, dr, t1, t2) IN
    /\ pc = "seeded"
    /\ <<dr, t1, t2>> \in WidgetValues(Get(mm), apply_filter)
    /\ start_dt' = rg[1]
    /\ end_dt' = rg[2]
    /\ where_parts' = WhereParts(successful_only, rg[1], rg[2], apply_filter)
    /\ params' = Params(rg[1], rg[2], apply_filter)
    /\ df' = Val(RowsQuery(successful_only, rg[1], rg[2], apply_filter))
    /\ conns' = ConnsAfter("ok")
    /\ queries' = QueriesAfter("ok")
    /\ pc' = "done"
    /\ UNCHANGED <<dbvars, selected_case, successful_only, apply_filter, mm>>

\* fetch_rows raises: the script ends there and its locals are gone
Case1FetchFails(dr, t1, t2, res) ==
    /\ pc = "seeded"
    /\ res # "ok"
    /\ <<dr, t1, t2>> \in WidgetValues(Get(mm), apply_filter)
    /\ conns' = ConnsAfter(res)
    /\ queries' = QueriesAfter(res)
    /\ msg' = "error"
    /\ pc' = "done"
    /\ UNCHANGED <<dbvars, selected_case, successful_only, apply_filter, mm, start_dt, end_dt,
                   where_parts, params, df, table, granularity, ts, chart>>

\* mutant: the empty result is rendered as a table before the warning
Case1NoRows_RendersTable(dr, t1, t2) ==
    /\ Case1Fetch(dr, t1, t2)
    /\ Get(df') = <<>>
    /\ table' = df'
    /\ msg' = "no_rows"
    /\ UNCHANGED <<granularity, ts, chart>>

\* st.warning("No rows match the current settings."); st.stop()
Case1NoRows(dr, t1, t2) ==
    /\ Case1Fetch(dr, t1, t2)
    /\ Get(df') = <<>>
    /\ msg' = "no_rows"
    /\ UNCHANGED <<table, granularity, ts, chart>>

\* the result table and the line chart of bookings over time
Case1LineChart(dr, t1, t2) ==
    /\ Case1Fetch(dr, t1, t2)
    /\ Get(df') # <<>>
    /\ table' = df'
    /\ RangeActive(start_dt', end_dt', apply_filter)
    /\ granularity' = AutoGranularity(Get(start_dt'), Get(end_dt'))
    /\ ts' = Val(ResampleCount(DropNa(Get(df')), granularity'))
    /\ chart' = "line"
    /\ msg' = ""

\* the result table and the bar chart by vehicle type
Case1BarChart(dr, t1, t2) ==
    /\ Case1Fetch(dr, t1, t2)
    /\ Get(df') # <<>>
    /\ table' = df'
    /\ ~RangeActive(start_dt', end_dt', apply_filter)
    /\ chart' = "bar"
    /\ msg' = ""
    /\ UNCHANGED <<granularity, ts>>

\* ------------------------------------------------------------------ Case 3
\* pd.to_datetime(text, errors="coerce"): 'DATE' or 'DATE TIME', white space skipped;
\* a text with two times of day is read with the later one or is NaT, depending
\* on the parser; any other text is NaT
PdToDatetime(x, lenient) ==
    IF IsNull(x) THEN NULL
    ELSE LET t == SelectSeq(Get(x), NotWs) IN
         IF Len(t) = 1 /\ t[1].k = "date" THEN Val(t[1].v * MinutesPerDay)
         ELSE IF Len(t) = 2 /\ t[1].k = "date" /\ t[2].k = "time"
              THEN Val(t[1].v * MinutesPerDay + t[2].v)
         ELSE IF lenient /\ Len(t) = 3 /\ t[1].k = "date" /\ t[2].k = "time" /\ t[3].k = "time"
              THEN Val(t[1].v * MinutesPerDay + t[3].v)
              ELSE NULL

\* df["date_str"]: strftime("%Y-%m-%d") of a datetime column (NaN for NaT),
\* astype(str) of a text column ("None" for None)
DateStr(date, typed) ==
    IF typed THEN (IF IsNull(date) THEN NULL ELSE Val(<<D(DateOf(Get(date)))>>))
    ELSE (IF IsNull(date) THEN Val(<<X>>) ELSE date)

\* df["time_str"] = df["time"].fillna("00:00:00").astype(str)
TimeStr(time) == IF IsNull(time) THEN Val(<<T(0)>>) ELSE time

\* first pass: pd.to_datetime(date_str + " " + time_str, errors="coerce")
Case3EventDt1(r, typed, lenient) ==
    PdToDatetime(ConcatSp(DateStr(r.date, typed), TimeStr(r.time)), lenient)

\* second pass, datetime column: df["event_dt"] = df["date"].copy()
Case3EventDt2(r) == r.date

\* WHERE canceled_rides_by_customer IS NOT NULL AND TRIM(canceled_rides_by_customer) <> ''
Case3Where(r, pad) ==
    /\ ~IsNull(r.canceled_rides_by_customer)
    /\ ~SqlEq(Get(SqlTrim(r.canceled_rides_by_customer, " ")), <<>>, " ", pad)

\* ORDER BY date, time: NULL first, then by value (a text by its characters)
TextKey(x, unit) ==
    IF IsNull(x) THEN 0
    ELSE LET t == SelectSeq(Get(x), NotWs) IN
         IF t = <<>> THEN 1
         ELSE IF t[1].k = "junk" THEN 2 + (MaxDay + 1) * MinutesPerDay
         ELSE 2 + t[1].v * unit + (IF Len(t) > 1 THEN t[2].v ELSE 0)

Case3Key ==
    [i \in DOMAIN bookings |->
        (IF dateTyped THEN 1 + DtKey(bookings[i].date)
         ELSE TextKey(bookings[i].date, MinutesPerDay)) * (MinutesPerDay + 2)
        + TextKey(bookings[i].time, 1)]

Case3Query ==
    LET ord == SortBy({i \in DOMAIN bookings : Case3Where(bookings[i], padSpace)}, Case3Key)
    IN [k \in DOMAIN ord |->
          [date |-> bookings[ord[k]].date, time |-> bookings[ord[k]].time,
           booking_id |-> bookings[ord[k]].booking_id,
           event_dt |-> Case3EventDt1(bookings[ord[k]], dateTyped, pdLenient)]]

\* df.dropna(subset=["event_dt"]).sort_values("event_dt") after the second pass
Case3Clean(rows) ==
    LET second == [k \in DOMAIN rows |-> [rows[k] EXCEPT !.event_dt = Case3EventDt2(rows[k])]]
        kept == DropNa(second)
        ord == SortBy(DOMAIN kept, [k \in DOMAIN kept |-> Get(kept[k].event_dt)])
    IN [k \in DOMAIN ord |-> kept[ord[k]]]

Case3QueryFails(res) ==
    /\ pc = "idle"
    /\ res # "ok"
    /\ selected_case' = "case3"
    /\ conns' = ConnsAfter(res)
    /\ queries' = QueriesAfter(res)
    /\ msg' = "error"
    /\ pc' = "done"
    /\ UNCHANGED <<dbvars, successful_only, apply_filter, mm, start_dt, end_dt, where_parts,
                   params, df, table, granularity, ts, chart>>

Case3Fetch ==
    /\ pc = "idle"
    /\ selected_case' = "case3"
    /\ conns' = ConnsAfter("ok")
    /\ queries' = QueriesAfter("ok")
    /\ pc' = "done"
    /\ UNCHANGED <<dbvars, successful_only, apply_filter, mm, start_dt, end_dt, where_parts,
                   params>>

\* st.warning("No customer-cancelled rides found."); st.stop()
Case3NoData ==
    /\ Case3Fetch
    /\ Case3Query = <<>>
    /\ df' = Val(Case3Query)
    /\ msg' = "no_data"
    /\ UNCHANGED <<table, granularity, ts, chart>>

\* text date column: the table and the bar chart are rendered, then line 372
\* names np, which the module never imports: NameError
Case3NameError ==
    /\ Case3Fetch
    /\ Case3Query # <<>>
    /\ ~dateTyped
    /\ df' = Val(Case3Query)
    /\ table' = Val(Case3Query)
    /\ chart' = "bar"
    /\ msg' = "error"
    /\ UNCHANGED <<granularity, ts>>

\* datetime date column, no row left after dropna: st.warning("No valid timestamps ...")
Case3NoValid ==
    /\ Case3Fetch
    /\ Case3Query # <<>>
    /\ dateTyped
    /\ Case3Clean(Case3Query) = <<>>
    /\ df' = Val(<<>>)
    /\ table' = Val(Case3Query)
    /\ chart' = "bar"
    /\ msg' = "no_valid"
    /\ UNCHANGED <<granularity, ts>>

\* datetime date column: the timeline at the granularity the radio selects
Case3Timeline(radio) ==
    /\ Case3Fetch
    /\ Case3Query # <<>>
    /\ dateTyped
    /\ Case3Clean(Case3Query) # <<>>
    /\ df' = Val(Case3Clean(Case3Query))
    /\ table' = Val(Case3Query)
    /\ granularity' = IF radio = "Hourly" THEN "H" ELSE "D"
    /\ ts' = Val(GrouperSize(Case3Clean(Case3Query), granularity'))
    /\ chart' = "line"
    /\ msg' = ""

\* ------------------------------------------------------------------ Case 9
\* WHERE LOWER(TRIM(booking_status)) = 'success' AND booking_value IS NOT NULL
Case9Where(r, pad) ==
    /\ ~IsNull(r.booking_status)
    /\ SqlEq(SqlLower(Get(SqlTrim(r.booking_status, " "))), <<"success">>, " ", pad)
    /\ ~IsNull(r.booking_value)

\* SELECT ..., COUNT(*) AS total_completed_rides ... GROUP BY vehicle_type: one
\* group (the model has one vehicle type), no row when nothing is selected
Case9Query ==
    LET S == {i \in DOMAIN bookings : Case9Where(bookings[i], padSpace)}
    IN IF S = {} THEN <<>> ELSE <<[total_completed_rides |-> Cardinality(S)]>>

Case9QueryFails(res) ==
    /\ pc = "idle"
    /\ res # "ok"
    /\ selected_case' = "case9"
    /\ conns' = ConnsAfter(res)
    /\ queries' = QueriesAfter(res)
    /\ msg' = "error"
    /\ pc' = "done"
    /\ UNCHANGED <<dbvars, successful_only, apply_filter, mm, start_dt, end_dt, where_parts,
                   params, df, table, granularity, ts, chart>>

Case9Fetch ==
    /\ pc = "idle"
    /\ selected_case' = "case9"
    /\ df' = Val(Case9Query)
    /\ conns' = ConnsAfter("ok")
    /\ queries' = QueriesAfter("ok")
    /\ pc' = "done"
    /\ UNCHANGED <<dbvars, successful_only, apply_filter, mm, start_dt, end_dt, where_parts,
                   params, granularity, ts>>

\* st.warning("No completed rides or booking value data found."); st.stop()
Case9NoData ==
    /\ Case9Fetch
    /\ Case9Query = <<>>
    /\ msg' = "no_data"
    /\ UNCHANGED <<table, chart>>

\* the metric, the table and the bar chart of booking value by vehicle type
Case9Table ==
    /\ Case9Fetch
    /\ Case9Query # <<>>
    /\ table' = Val(Case9Query)
    /\ chart' = "bar"
    /\ msg' = ""

\* ------------------------------------------------------------------ the bookings tables
Row(date, time, status, id, canc) ==
    [date |-> date, time |-> time, booking_status |-> status, booking_id |-> id,
     canceled_rides_by_customer |-> canc, booking_value |-> Val(100)]

RECURSIVE ListOf(_)
ListOf(S) == IF S = {} THEN <<>> ELSE LET x == CHOOSE y \in S : TRUE IN <<x>> \o ListOf(S \ {x})

\* the tables of at most MaxRows rows drawn from list; a table's storage order
\* is not observable (no query reads it but to break ties), so one order of
\* each multiset of rows stands for all
Tables(list) ==
    UNION {{[i \in 1..n |-> list[f[i]]] :
              f \in {g \in [1..n -> DOMAIN list] : \A i \in 1..n, j \in 1..n : i < j => g[i] <= g[j]}} :
           n \in 0..MaxRows}

Fresh ==
    /\ pc = "idle"
    /\ selected_case = "none"
    /\ successful_only = FALSE
    /\ apply_filter = FALSE
    /\ mm = NULL
    /\ start_dt = NULL
    /\ end_dt = NULL
    /\ where_parts = <<>>
    /\ params = NULL
    /\ df = NULL
    /\ table = NULL
    /\ granularity = ""
    /\ ts = NULL
    /\ chart = ""
    /\ msg = ""
    /\ conns = 0
    /\ queries = 0

RowDays == {0, 1, MaxDay}
Ok == Val(<<"Success">>)
Cancelled == Val(<<"Cancelled">>)
One == Val(<<"1">>)

\* bookings with a DATETIME date at midnight and a time of day, successful or
\* cancelled by the customer
RangeRowsTyped ==
    ListOf({Row(d, Val(<<T(m)>>), st[1], Val(1), st[2]) :
            d \in {NULL} \cup {Val(x * MinutesPerDay) : x \in RowDays},
            m \in {9 * MinutesPerHour, MinutesPerDay - 1},
            st \in {<<Ok, NULL>>, <<Cancelled, One>>}})

RangeRowsText ==
    ListOf({Row(Val(<<D(0)>>), Val(<<T(9 * MinutesPerHour)>>), st[1], Val(1), st[2]) :
            st \in {<<Ok, NULL>>, <<Cancelled, One>>}})

Init ==
    /\ \/ dateTyped = TRUE /\ bookings \in Tables(RangeRowsTyped)
       \/ dateTyped = FALSE /\ bookings \in Tables(RangeRowsText)
    /\ padSpace = FALSE
    /\ pdLenient = FALSE
    /\ Fresh

\* single records with every form of date and time: a DATETIME or a text date,
\* with or without a time of day in it, NULL or no date at all; a time that
\* is NULL, empty, a blank, a tab, or a time of day with or without blanks
\* around it
TimeTexts ==
    {NULL, Val(<<>>), Val(<<SP>>), Val(<<TB>>), Val(<<T(9 * MinutesPerHour)>>),
     Val(<<SP, T(9 * MinutesPerHour), SP>>)}

NormRowsTyped ==
    {Row(d, t, Ok, Val(1), c) :
        d \in {NULL} \cup {Val(x * MinutesPerDay + m) : x \in RowDays, m \in {0, 10 * MinutesPerHour}},
        t \in TimeTexts, c \in {NULL, One}}

NormRowsText ==
    {Row(d, t, Ok, Val(1), c) :
        d \in {NULL, Val(<<X>>)} \cup {Val(<<D(x)>>) : x \in RowDays}
              \cup {Val(<<D(x), SP, T(10 * MinutesPerHour)>>) : x \in RowDays},
        t \in TimeTexts, c \in {NULL, One}}

InitNorm ==
    /\ \/ dateTyped = TRUE /\ bookings \in {<<>>} \cup {<<r>> : r \in NormRowsTyped}
          /\ pdLenient = FALSE
       \/ dateTyped = FALSE /\ bookings \in {<<r>> : r \in NormRowsText} /\ pdLenient \in BOOLEAN
    /\ padSpace \in BOOLEAN
    /\ Fresh

\* bookings with every form of status
StatusTexts ==
    {NULL, Val(<<>>), Val(<<"Success">>), Val(<<"success">>), Val(<<"SUCCESS">>),
     Val(<<" ", "Success">>), Val(<<"SUCCESS", " ">>), Val(<<"Cancelled">>)}

StatusRowsTyped ==
    ListOf({Row(d, Val(<<T(9 * MinutesPerHour)>>), st, Val(1), IF st = Cancelled THEN One ELSE NULL) :
            d \in {NULL, Val(0)}, st \in StatusTexts})

InitStatus ==
    /\ \/ dateTyped = TRUE /\ bookings \in Tables(StatusRowsTyped)
       \/ dateTyped = FALSE /\ bookings \in Tables(RangeRowsText)
    /\ padSpace \in BOOLEAN
    /\ pdLenient = FALSE
    /\ Fresh

\* bookings at several hours of several days, with and without a booking id
BucketRowsTyped ==
    ListOf({Row(d, NULL, st[1], st[2], st[3]) :
            d \in {NULL, Val(9 * MinutesPerHour), Val(23 * MinutesPerHour),
                   Val(MinutesPerDay + 10 * MinutesPerHour),
                   Val(MaxDay * MinutesPerDay + 9 * MinutesPerHour)},
            st \in {<<Ok, Val(1), NULL>>, <<Ok, NULL, NULL>>, <<Cancelled, Val(1), One>>}})

InitBucket ==
    /\ \/ dateTyped = TRUE /\ bookings \in Tables(BucketRowsTyped)
       \/ dateTyped = FALSE /\ bookings \in Tables(RangeRowsText)
    /\ padSpace = FALSE
    /\ pdLenient = FALSE
    /\ Fresh

Radios == {"Daily", "Hourly"}
DateRanges == {<<a>> : a \in Days} \cup (Days \X Days)
ClockTimes == StartTimes \cup EndTimes

Next ==
    \/ \E so \in BOOLEAN : fetch_minmax(so)
    \/ \E so \in BOOLEAN, af \in BOOLEAN, s \in ArgBounds, e \in ArgBounds : fetch_rows(so, s, e, af)
    \/ \E fn \in {"fetch_minmax", "fetch_rows"}, res \in DbOutcomes : FetchRaises(fn, res)
    \/ \E so \in BOOLEAN, af \in BOOLEAN, res \in DbOutcomes : Case1ProbeFails(so, af, res)
    \/ \E so \in BOOLEAN, af \in BOOLEAN : Case1NoData(so, af)
    \/ \E so \in BOOLEAN, af \in BOOLEAN : Case1Seeded(so, af)
    \/ \E dr \in DateRanges, t1 \in ClockTimes, t2 \in ClockTimes, res \in DbOutcomes :
          Case1FetchFails(dr, t1, t2, res)
    \/ \E dr \in DateRanges, t1 \in ClockTimes, t2 \in ClockTimes : Case1NoRows(dr, t1, t2)
    \/ \E dr \in DateRanges, t1 \in ClockTimes, t2 \in ClockTimes : Case1LineChart(dr, t1, t2)
    \/ \E dr \in DateRanges, t1 \in ClockTimes, t2 \in ClockTimes : Case1BarChart(dr, t1, t2)
    \/ \E res \in DbOutcomes : Case3QueryFails(res)
    \/ Case3NoData
    \/ Case3NameError
    \/ Case3NoValid
    \/ \E radio \in Radios : Case3Timeline(radio)
    \/ \E res \in DbOutcomes : Case9QueryFails(res)
    \/ Case9NoData
    \/ Case9Table

Spec == Init /\ [][Next]_vars
SpecNorm == InitNorm /\ [][Next]_vars
SpecStatus == InitStatus /\ [][Next]_vars
SpecBucket == InitBucket /\ [][Next]_vars

\* ------------------------------------------------------------------ properties
\* fetch_rows has returned a result (called on its own or by Case 1)
RowsFetched == pc = "done" /\ selected_case \in {"fetch_rows", "case1"} /\ ~IsNull(df)

\* rows holds exactly the result rows of the table rows S, each as often as in S
SameRows(rows, S) ==
    /\ Len(rows) = Cardinality(S)
    /\ \A i \in S :
          Cardinality({k \in DOMAIN rows : rows[k] = ResultRow(i)})
          = Cardinality({j \in S : ResultRow(j) = ResultRow(i)})

\* C1: with range filtering enabled and both bounds present, fetch_rows returns
\* exactly the rows whose event timestamp t has start <= t <= end (and that are
\* successful when successful_only is set): none else, none missing.
C1_RangeSelectsWindow ==
    (RowsFetched /\ apply_filter /\ ~IsNull(start_dt) /\ ~IsNull(end_dt)) =>
        SameRows(Get(df),
                 {i \in DOMAIN bookings :
                    /\ successful_only => SUCCESS_WHERE(bookings[i], padSpace)
                    /\ ~IsNull(EventDt(i))
                    /\ Get(start_dt) <= Get(EventDt(i))
                    /\ Get(EventDt(i)) <= Get(end_dt)})

\* a filtered fetch of successful rows that kept a row lying exactly on the end
\* bound and left out a successful row after it
C1_Witness ==
    /\ RowsFetched /\ apply_filter /\ successful_only
    /\ ~IsNull(start_dt) /\ ~IsNull(end_dt)
    /\ \E k \in DOMAIN Get(df) : Get(df)[k].event_dt = end_dt
    /\ \E i \in DOMAIN bookings :
          /\ SUCCESS_WHERE(bookings[i], padSpace)
          /\ ~IsNull(EventDt(i))
          /\ Get(EventDt(i)) > Get(end_dt)

\* C2: with apply_filter off, whatever the bounds, fetch_rows returns the rows
\* it returns with no range at all, and binds no parameters.
C2_DisabledRangeDoesNotFilter ==
    (RowsFetched /\ ~apply_filter) =>
        /\ Get(df) = RowsQuery(successful_only, NULL, NULL, FALSE)
        /\ Get(df) = RowsQuery(successful_only, NULL, NULL, TRUE)
        /\ SameRows(Get(df), {i \in DOMAIN bookings :
                                successful_only => SUCCESS_WHERE(bookings[i], padSpace)})
        /\ params = NULL

\* a fetch with the filter off and both bounds given that returned a row
\* outside the bounds
C2_Witness ==
    /\ RowsFetched /\ ~apply_filter
    /\ ~IsNull(start_dt) /\ ~IsNull(end_dt)
    /\ \E k \in DOMAIN Get(df) :
          /\ ~IsNull(Get(df)[k].event_dt)
          /\ Get(Get(df)[k].event_dt) > Get(end_dt)

\* the status with the blanks at both ends removed and in lower case
NormalizedStatus(st) == IF IsNull(st) THEN NULL ELSE SqlLower(Get(SqlTrim(st, " ")))

\* C3: with successful_only and no range, the rows returned are exactly those
\* whose status, trimmed and lower-cased, is 'success'.
C3_SuccessIsTrimmedAndCaseFolded ==
    (RowsFetched /\ successful_only /\ where_parts = <<"SUCCESS_WHERE">>) =>
        SameRows(Get(df), {i \in DOMAIN bookings :
                             NormalizedStatus(bookings[i].booking_status) = <<"success">>})

\* the day and the time of day a date value holds: <<>> when it is NULL or no
\* date, else <<day>> or <<day, minute>>
DateParts(date, typed) ==
    IF IsNull(date) THEN <<>>
    ELSE IF typed THEN <<Get(date) \div MinutesPerDay, Get(date) % MinutesPerDay>>
    ELSE LET t == SelectSeq(Get(date), NotWs) IN
         IF Len(t) = 1 /\ t[1].k = "date" THEN <<t[1].v>>
         ELSE IF Len(t) = 2 /\ t[1].k = "date" /\ t[2].k = "time" THEN <<t[1].v, t[2].v>>
         ELSE <<>>

\* the timestamp of a record whose time, cut down to tm, counts as present
\* when tm is not empty: the date's day at tm's time of day (midnight when tm
\* holds white space only), else the date read whole
TimestampGiven(r, typed, tm) ==
    LET dp == DateParts(r.date, typed)
        tod == SelectSeq(tm, NotWs)
    IN IF dp = <<>> THEN NULL
       ELSE IF tm # <<>>
            THEN (IF tod = <<>> THEN Val(dp[1] * MinutesPerDay)
                  ELSE IF Len(tod) = 1 /\ tod[1].k = "time"
                       THEN Val(dp[1] * MinutesPerDay + tod[1].v) ELSE NULL)
            ELSE Val(dp[1] * MinutesPerDay + (IF Len(dp) = 2 THEN dp[2] ELSE 0))

\* the time with the blanks at both ends removed, '' for NULL
BlanksTrimmed(time) == IF IsNull(time) THEN <<>> ELSE LTrimTok(RTrimTok(Get(time), SP), SP)

\* the time with all white space removed, '' for NULL
WhiteSpaceRemoved(time) == IF IsNull(time) THEN <<>> ELSE SelectSeq(Get(time), NotWs)

\* C4 (as amended): the event timestamp of every fetched record is the date's
\* day at the trimmed time when the time, its leading and trailing blanks
\* removed, is not empty (a time of tabs counts as present and gives midnight
\* of that day), and the date read whole when the time is missing, empty or
\* blanks only.
C4_NormalizedTimestamp ==
    RowsFetched => \A k \in DOMAIN Get(df) :
        Get(df)[k].event_dt = TimestampGiven(Get(df)[k], dateTyped, BlanksTrimmed(Get(df)[k].time))

\* a fetched record whose date carries 10:00 and whose time is ' 09:00 ': its
\* timestamp is 09:00 of the date's day
C4_Witness ==
    /\ RowsFetched
    /\ \E k \in DOMAIN Get(df) :
          /\ Len(DateParts(Get(df)[k].date, dateTyped)) = 2
          /\ DateParts(Get(df)[k].date, dateTyped)[2] = 10 * MinutesPerHour
          /\ Get(df)[k].time = Val(<<SP, T(9 * MinutesPerHour), SP>>)
          /\ Get(df)[k].event_dt =
                Val(DateParts(Get(df)[k].date, dateTyped)[1] * MinutesPerDay + 9 * MinutesPerHour)

\* C4 (as claimed): the date's day at the trimmed time when the time is present
\* and not blank, the date read whole when the time is missing, empty or white
\* space only.
C4_WhitespaceOnlyTimeIsAbsent ==
    RowsFetched => \A k \in DOMAIN Get(df) :
        Get(df)[k].event_dt = TimestampGiven(Get(df)[k], dateTyped, WhiteSpaceRemoved(Get(df)[k].time))

\* Case 3 has rendered its table (first-pass event_dt)
Case3Rendered == pc = "done" /\ selected_case = "case3" /\ ~IsNull(table)

\* C5: the timestamps Case 3 derives in process (both passes) are those of
\* EVENT_DT_EXPR for every record, unparseable where it is unparseable.
C5_InProcessAgreesWithPushedDown ==
    Case3Rendered =>
        /\ \A k \in DOMAIN Get(table) :
              Get(table)[k].event_dt = EVENT_DT_EXPR(Get(table)[k], dateTyped, padSpace)
        /\ msg # "error" =>
              /\ \A k \in DOMAIN Get(df) :
                    Get(df)[k].event_dt = EVENT_DT_EXPR(Get(df)[k], dateTyped, padSpace)
              /\ Len(Get(df)) = Cardinality({k \in DOMAIN Get(table) :
                    ~IsNull(EVENT_DT_EXPR(Get(table)[k], dateTyped, padSpace))})

\* Case 1 has drawn its line chart
Case1Line == pc = "done" /\ selected_case = "case1" /\ chart = "line"

\* C6 (as amended): hourly is chosen when end - start is less than four whole
\* days (its whole-day part is at most 3), daily otherwise; the calendar days
\* the range touches do not decide it.
C6_AutoGranularityByElapsedDays ==
    Case1Line =>
        /\ granularity \in {"H", "D"}
        /\ granularity = "H" <=>
              Get(end_dt) - Get(start_dt) < (AutoHourlyMaxDays + 1) * MinutesPerDay

\* a range of four calendar days, 00:00 of the first to 23:59 of the fourth,
\* charted hourly
C6_Witness ==
    /\ Case1Line
    /\ Get(start_dt) % MinutesPerDay = 0
    /\ Get(end_dt) = Get(start_dt) + AutoHourlyMaxDays * MinutesPerDay + MinutesPerDay - 1
    /\ granularity = "H"

\* C6 (as claimed): hourly is chosen when the range spans 3 calendar days or
\* fewer, daily otherwise (so D1 00:00 .. D4 23:59 is daily).
C6_AutoGranularityByCalendarDays ==
    Case1Line =>
        (granularity = "H" <=>
            DateOf(Get(end_dt)) - DateOf(Get(start_dt)) + 1 <= AutoHourlyMaxDays)

\* a time series has been drawn (Case 1 line chart or Case 3 timeline)
Charted == pc = "done" /\ chart = "line" /\ ~IsNull(ts)

\* the rows the series is built from
Included == IF selected_case = "case1" THEN DropNa(Get(df)) ELSE Get(df)

IncludedTimes == {Get(Included[k].event_dt) : k \in DOMAIN Included}

HourOf(t) == (t % MinutesPerDay) \div MinutesPerHour

\* C7 (as amended): daily over rows whose earliest and latest day are two
\* consecutive days gives exactly 2 buckets; hourly over rows of one day gives
\* one bucket per hour from the earliest row's hour to the latest row's hour
\* (24 only when rows fall in hour 0 and in hour 23).
C7_BucketCounts ==
    (Charted /\ Included # <<>>) =>
        LET lo == Min(IncludedTimes)
            hi == Max(IncludedTimes)
        IN /\ (granularity = "D" /\ DateOf(hi) = DateOf(lo) + 1) => Len(Get(ts)) = 2
           /\ (granularity = "H" /\ DateOf(hi) = DateOf(lo)) =>
                 /\ Len(Get(ts)) = HourOf(hi) - HourOf(lo) + 1
                 /\ Len(Get(ts)) <= HoursPerDay

\* an hourly series over rows of one day, at 09:00 and at 23:00: 15 buckets
C7_Witness ==
    /\ Charted /\ granularity = "H" /\ Included # <<>>
    /\ DateOf(Max(IncludedTimes)) = DateOf(Min(IncludedTimes))
    /\ HourOf(Min(IncludedTimes)) = 9
    /\ HourOf(Max(IncludedTimes)) = 23
    /\ Len(Get(ts)) = 15

\* C7 (as claimed): daily over a 2-day fixture gives exactly 2 buckets, hourly
\* over a 1-day fixture exactly 24, whichever hours the rows fall in.
C7_TwentyFourHourlyBuckets ==
    (Charted /\ Included # <<>>) =>
        LET lo == Min(IncludedTimes)
            hi == Max(IncludedTimes)
        IN /\ (granularity = "D" /\ DateOf(hi) = DateOf(lo) + 1) => Len(Get(ts)) = 2
           /\ (granularity = "H" /\ DateOf(hi) = DateOf(lo)) => Len(Get(ts)) = HoursPerDay

\* the rows of the series' k-th bucket: timestamps in [start, start + width)
InBucket(k) ==
    {j \in DOMAIN Included :
        /\ Get(ts)[k].event_dt <= Get(Included[j].event_dt)
        /\ Get(Included[j].event_dt) < Get(ts)[k].event_dt + Width(granularity)}

\* C8: the series has no gaps: it starts at the calendar-aligned bucket of the
\* earliest row, ends at that of the latest, consecutive entries are one
\* bucket width apart, and a bucket without rows is there with value 0.
C8_SeriesGapFree ==
    (Charted /\ Included # <<>>) =>
        LET w == Width(granularity)
            n == Len(Get(ts))
        IN /\ n >= 1
           /\ \A k \in 1..n : Get(ts)[k].event_dt % w = 0
           /\ Min(IncludedTimes) \in Get(ts)[1].event_dt .. (Get(ts)[1].event_dt + w - 1)
           /\ Max(IncludedTimes) \in Get(ts)[n].event_dt .. (Get(ts)[n].event_dt + w - 1)
           /\ \A k \in 1..(n - 1) : Get(ts)[k + 1].event_dt - Get(ts)[k].event_dt = w
           /\ \A k \in 1..n : InBucket(k) = {} => Get(ts)[k].n = 0

\* a series with a zero-valued bucket between two populated ones
C8_Witness ==
    /\ Charted
    /\ \E k \in 2..(Len(Get(ts)) - 1) : Get(ts)[k].n = 0 /\ InBucket(k) = {}
    /\ Get(ts)[1].n > 0
    /\ Get(ts)[Len(Get(ts))].n > 0

RECURSIVE SumN(_)
SumN(series) == IF series = <<>> THEN 0 ELSE Head(series).n + SumN(Tail(series))

\* C9: every bucket's value is the number of included rows in its half-open
\* interval, so the values add up to the number of rows with a timestamp,
\* whether or not the rows have a booking id.
C9_BucketValueIsRowCount ==
    Charted =>
        /\ \A k \in DOMAIN Get(ts) : Get(ts)[k].n = Cardinality(InBucket(k))
        /\ SumN(Get(ts)) = Len(Included)

\* C10: when fetch_minmax or fetch_rows has finished, however it ended, no
\* connection is open.
C10_ConnectionClosedOnEveryExit ==
    (pc \in {"seeded", "done"} /\ selected_case \in {"fetch_minmax", "fetch_rows", "case1"})
        => conns = 0

\* Case 1 has run past its probe with the date filter on (the probe found data)
Case1Filtered ==
    /\ pc = "done" /\ selected_case = "case1" /\ apply_filter
    /\ ~IsNull(mm) /\ ~IsNull(Get(mm).min_dt) /\ ~IsNull(Get(mm).max_dt)

\* the range the widgets gave is invalid: a bound is missing (the date range
\* is half picked) or the end lies before the start
InvalidRange ==
    \/ IsNull(start_dt) \/ IsNull(end_dt)
    \/ Get(end_dt) < Get(start_dt)

\* C11: with range filtering on, an invalid range (end before start, or a
\* bound missing) is rejected before any row query: fetch_rows is not called,
\* only the probe has gone to the record source, and nothing is run unfiltered
\* or with an empty window.
C11_InvalidRangeRejected ==
    (Case1Filtered /\ msg # "error" /\ InvalidRange) =>
        /\ IsNull(df)
        /\ queries <= 1
        /\ chart = ""

\* the rows the row fetch classifies as successful
RowFetchSuccessful == {i \in DOMAIN bookings : SUCCESS_WHERE(bookings[i], padSpace)}

\* C12: the min/max probe, the row fetch and Case 9 apply the same success
\* predicate: the probe's extremes are those of the rows the row fetch takes
\* as successful, and Case 9 counts exactly those rows (every row of the table
\* has a booking value).
C12_SameSuccessPredicateEverywhere ==
    /\ (pc = "done" /\ selected_case = "fetch_minmax" /\ successful_only /\ ~IsNull(mm)) =>
          LET V == {Get(EventDt(i)) : i \in {j \in RowFetchSuccessful : ~IsNull(EventDt(j))}}
          IN IF V = {} THEN IsNull(Get(mm).min_dt) /\ IsNull(Get(mm).max_dt)
             ELSE Get(mm).min_dt = Val(Min(V)) /\ Get(mm).max_dt = Val(Max(V))
    /\ (pc = "done" /\ selected_case = "case9" /\ ~IsNull(df)) =>
          IF RowFetchSuccessful = {} THEN Get(df) = <<>>
          ELSE /\ Len(Get(df)) = 1
               /\ Get(df)[1].total_completed_rides = Cardinality(RowFetchSuccessful)

\* Case 1 has rendered its result table
Case1Table == pc = "done" /\ selected_case = "case1" /\ ~IsNull(table)

\* the rows of the table that match Case 1's success condition
Case1Matching == {i \in DOMAIN bookings : successful_only => SUCCESS_WHERE(bookings[i], padSpace)}

\* the rows of a result that have a timestamp
WithEventDt(rows) == {k \in DOMAIN rows : ~IsNull(rows[k].event_dt)}

\* the series counts rows with a valid timestamp only
SeriesOfValidRowsOnly ==
    /\ (Charted /\ selected_case = "case1") =>
          SumN(Get(ts)) <= Cardinality(WithEventDt(Get(table)))
    /\ (Charted /\ selected_case = "case3") =>
          /\ \A k \in DOMAIN Get(df) : ~IsNull(Get(df)[k].event_dt)
          /\ SumN(Get(ts)) = Cardinality({k \in DOMAIN Get(table) : ~IsNull(Get(table)[k].date)})

\* C13 (as amended): the series counts only rows with a valid timestamp. Case 3's
\* table holds every customer-cancelled row and Case 1's table, with no range
\* active, every row matching the success condition, rows without a timestamp
\* included; with a range active Case 1's table holds the matching rows inside
\* the window only, so no row without a timestamp.
C13_UnparseableRowsInUnfilteredTable ==
    /\ SeriesOfValidRowsOnly
    /\ Case3Rendered =>
          Len(Get(table)) = Cardinality({i \in DOMAIN bookings : Case3Where(bookings[i], padSpace)})
    /\ (Case1Table /\ ~RangeActive(start_dt, end_dt, apply_filter)) =>
          SameRows(Get(table), Case1Matching)
    /\ (Case1Table /\ RangeActive(start_dt, end_dt, apply_filter)) =>
          SameRows(Get(table),
                   {i \in Case1Matching :
                      /\ ~IsNull(EventDt(i))
                      /\ Get(start_dt) <= Get(EventDt(i))
                      /\ Get(EventDt(i)) <= Get(end_dt)})

\* Case 3 charts a timeline of one row while its table shows that row and a
\* row without a date
C13_Witness ==
    /\ Charted /\ selected_case = "case3"
    /\ \E k \in DOMAIN Get(table) : IsNull(Get(table)[k].date)
    /\ Len(Get(table)) = 2
    /\ SumN(Get(ts)) = 1

\* C13 (as claimed): the table holds every matching row without a timestamp
\* also when a range is active (next to the matching rows inside the window).
C13_UnparseableRowsKeptInTable ==
    /\ SeriesOfValidRowsOnly
    /\ Case3Rendered =>
          Len(Get(table)) = Cardinality({i \in DOMAIN bookings : Case3Where(bookings[i], padSpace)})
    /\ Case1Table =>
          SameRows(Get(table),
                   {i \in Case1Matching :
                      RangeActive(start_dt, end_dt, apply_filter) =>
                         \/ IsNull(EventDt(i))
                         \/ /\ Get(start_dt) <= Get(EventDt(i))
                            /\ Get(EventDt(i)) <= Get(end_dt)})

\* C14: once Case 1 or Case 3 has its rows, the request runs to completion
\* whatever the rows' dates and times are, for a datetime and for a text date
\* column: no exception ends it, and a row without a valid timestamp is only
\* left out of the series.
C14_MalformedRowNeverAborts ==
    (Case1Table \/ Case3Rendered) =>
        /\ msg # "error"
        /\ Charted => \A k \in DOMAIN Included : ~IsNull(Included[k].event_dt)

\* the probe of Case 1 has answered
Case1Probed == selected_case = "case1" /\ ~IsNull(mm)

\* the probe found no minimum or no maximum
ProbeEmpty == IsNull(Get(mm).min_dt) \/ IsNull(Get(mm).max_dt)

\* C15: in Case 1 the row fetch is issued only after the probe, and only when
\* the probe gave a minimum and a maximum; after an empty probe, and after a
\* row fetch of zero rows, the request has stopped with a warning and not an
\* error, has rendered no table and no chart, and has made at most two round
\* trips (one when the probe was empty).
C15_EmptyResultIsTerminalNoData ==
    selected_case = "case1" =>
        /\ queries <= 2
        /\ ~IsNull(df) => Case1Probed /\ ~ProbeEmpty /\ queries = 2
        /\ (Case1Probed /\ ProbeEmpty) =>
              /\ pc = "done" /\ msg = "no_data"
              /\ IsNull(df) /\ IsNull(table) /\ chart = ""
              /\ queries = 1
        /\ (~IsNull(df) /\ Get(df) = <<>>) =>
              /\ pc = "done" /\ msg = "no_rows"
              /\ IsNull(table) /\ chart = ""

\* the probe found data, the row fetch over the chosen window found none: two
\* round trips, a warning, nothing rendered
C15_Witness ==
    /\ pc = "done" /\ selected_case = "case1"
    /\ ~IsNull(mm) /\ ~ProbeEmpty
    /\ ~IsNull(df) /\ Get(df) = <<>>
    /\ msg = "no_rows" /\ queries = 2 /\ IsNull(table)

\* C16: fetch_rows with successful_only false and no active range (a bound is
\* None, or the filter is off) builds no WHERE clause, binds no parameters and
\* returns every row of bookings, whatever its status and timestamp.
C16_NoConditionsSelectsAll ==
    (RowsFetched /\ ~successful_only /\ ~(apply_filter /\ ~IsNull(start_dt) /\ ~IsNull(end_dt))) =>
        /\ where_parts = <<>>
        /\ IsNull(params)
        /\ SameRows(Get(df), DOMAIN bookings)

\* fetch_rows(False, None, end, True) over two rows, one with a NULL status
\* and one with no timestamp, returns both
C16_Witness ==
    /\ RowsFetched /\ selected_case = "fetch_rows"
    /\ ~successful_only /\ apply_filter /\ IsNull(start_dt) /\ ~IsNull(end_dt)
    /\ Len(bookings) = 2 /\ Len(Get(df)) = 2
    /\ \E k \in DOMAIN Get(df) : IsNull(Get(df)[k].booking_status)
    /\ \E k \in DOMAIN Get(df) : IsNull(Get(df)[k].event_dt)
====
